---- MODULE Spec2Model ----
(***************************************************************************)
(* Web Audio Sampler: the pad store (SamplerEngine), its loads, its        *)
(* playbacks and the handlers of the sampler page that drive it.           *)
(*                                                                         *)
(* Times (trim points, buffer durations, playback offsets and lengths) are *)
(* counted in ticks of half a second, so that the 2-second buffer trimmed  *)
(* to [0.5 s, 1.5 s] is a buffer of 4 ticks trimmed to [1, 3].             *)
(***************************************************************************)
EXTENDS Integers, Sequences, FiniteSets, TLC

VARIABLES
    pads,       \* SamplerEngine.pads: pad index -> Pad record
    tasks,      \* the loadSound / loadSoundFromURL calls in flight, in call order
    playbacks,  \* the buffer sources started and still playing, in start order
    last,       \* the call or step that ran last, and its outcome
    batch,      \* the sampler page: the "load all" button, the status line and
                \* the results of the loads loadPresetSounds has started
    bars,       \* the TrimbarsDrawer of the waveform editor
    wave,       \* the WaveformDrawer of the waveform editor and its canvas
    page        \* the sampler page: the selected pad, the waveform section,
                \* the pointer listeners and the timers of selectPad

vars == <<pads, tasks, playbacks, last, batch, bars, wave, page>>

\* the waveform editor, left alone by the pad store and the loads
editor == <<bars, wave, page>>

(***************************************************************************)
(* Bounds of the model and program constants                               *)
(***************************************************************************)
maxPads == 16
canvasWidth == 900      \* the width of the waveform canvas and of its overlay
canvasHeight == 200     \* their height
chunkSize == 300        \* the columns _getPeaksChunked processes per animation frame

MaxInFlight == 1        \* loads started by separate calls, in flight together
MaxOverlap == 2         \* loads of the overlapping-loads specification in flight together
OverlapPads == {0, 1}   \* the pads they target
MaxPlaybacks == 1       \* buffer sources playing together
MaxBatches == 2         \* loadPresetSounds calls of the main script in flight together

PadIndices == 0 .. (maxPads - 1)
PadArgs == {-1, 0, 1, maxPads}          \* pad indices the callers pass
PlayPadArgs == {-1, 0, maxPads}         \* the same, where playbacks are followed
TimeArgs == {-1, 1, 3}                  \* start / end arguments, in ticks
AudioData == {0, 1, 2}                  \* encoded byte strings
\* the <<bytes, name>> pairs the callers load; "" stands for a null / empty name
LoadArgs == {<<0, "snare">>, <<1, "kick">>, <<2, "">>}
PlayLoadArgs == {<<1, "kick">>, <<2, "">>}  \* the same, where playbacks are followed
Urls == {1, 2}                          \* the locators the callers load from
\* the locators whose progress reports are followed: total size known, total
\* size unknown, and a body longer than the declared total size
ProgressUrls == {1, 3, 4}
\* the <<locator, name>> samples of the presets; "" stands for a sample
\* without a name
Samples == {<<1, "clap">>, <<2, "">>, <<3, "">>, <<5, "tom">>}
\* the presets the page can load: up to three samples each
Presets ==
    {<<>>} \cup {<<a>> : a \in Samples}
           \cup {<<a, b>> : a \in Samples, b \in Samples}
           \cup {<<a, b, c>> : a \in Samples, b \in Samples, c \in Samples}
\* the selection of the preset dropdown: <<>> stands for no selection
PresetArgs == {<<>>} \cup {<<p>> : p \in Presets}

\* the presets of the main script: none with sources, one source, and two
\* sources of which the first cannot be fetched; and its dropdown values
ScriptPresets == {<<>>, <<<<3, "">>>>, <<<<2, "">>, <<3, "kick">>>>}
ScriptValues == {<<>>} \cup {<<p>> : p \in ScriptPresets}

\* pointer positions on and around the canvas, in pixels
PointerXs == {-50, 100, 120, 130, 450, 800, 850, 950}
PointerYs == {0, 18, 100}
MousePositions == [x : PointerXs, y : PointerYs]
\* the positions the bars are constructed at: far apart, and close together
BarArgs == {<<100, 800>>, <<100, 130>>}
\* the decoded buffers and the canvas widths the waveform drawers are given
WaveData == {1, 2, 3, 4, 5}
Widths == {2, 4, 301}
\* the pads whose buttons are clicked, and the pointer positions on the
\* overlay canvas, which the page may show wider than its canvasWidth pixels
EditedPads == {0, 1}
PagePositions == [x : {0, 450, 900, 1350}, y : {0}]
\* the <<bytes, name>> sounds loaded into these pads
EditedLoadArgs == {<<1, "kick">>}
MaxTimers == 1          \* the timers of selectPad waiting together
\* no pad is selected, no waveform section, no listener, no timer
NoPage == [selectedPadIndex |-> -1, showWaveform |-> FALSE, listeners |-> -1,
           timers |-> <<>>]

RemoveAt(seq, k) == SubSeq(seq, 1, k - 1) \o SubSeq(seq, k + 1, Len(seq))

Max(a, b) == IF a >= b THEN a ELSE b
Min(a, b) == IF a <= b THEN a ELSE b

(***************************************************************************)
(* Decoded buffers                                                         *)
(***************************************************************************)
NullBuffer == [id |-> 0, duration |-> 0]

\* AudioContext.decodeAudioData: input d > 0 decodes to a buffer of 2 * d
\* ticks that is identified by its input; input 0 is rejected.
Decodes(d) == d > 0
decodeAudioData(d) == [id |-> d, duration |-> 2 * d]

(***************************************************************************)
(* Pads                                                                    *)
(***************************************************************************)
DefaultName(i) == "Pad " \o ToString(i + 1)

EmptyPad(i) ==
    [index |-> i, buffer |-> NullBuffer, name |-> DefaultName(i),
     loaded |-> FALSE, trimStart |-> 0, trimEnd |-> 1, gain |-> 1]

initializePads == [i \in PadIndices |-> EmptyPad(i)]

ValidIndex(padIndex) == ~(padIndex < 0 \/ padIndex >= maxPads)

\* the test `pad.loaded && pad.buffer` of play, setTrimPoints and resetPad
IsLoaded(pad) == pad.loaded /\ pad.buffer # NullBuffer

Absent == [index |-> -1, buffer |-> NullBuffer, name |-> "", loaded |-> FALSE,
           trimStart |-> 0, trimEnd |-> 0, gain |-> 0]

getPad(padIndex) == IF ~ValidIndex(padIndex) THEN Absent ELSE pads[padIndex]

NoPad == maxPads + 1
Done(op, padIndex, outcome) ==
    [op |-> op, pad |-> padIndex, outcome |-> outcome, status |-> 0, reported |-> <<>>]

(***************************************************************************)
(* setTrimPoints, resetPad, clearAll                                       *)
(***************************************************************************)
\* variant: the arguments are stored without clamping
TrimmedPadUnclamped(pad, startTime, endTime) ==
    [pad EXCEPT !.trimStart = startTime, !.trimEnd = endTime]

\* variant: the arguments are put in order before they are stored
TrimmedPadSorted(pad, startTime, endTime) ==
    [pad EXCEPT !.trimStart = Max(0, Min(startTime, endTime)),
                !.trimEnd = Min(pad.buffer.duration, Max(startTime, endTime))]

TrimmedPad(pad, startTime, endTime) ==
    [pad EXCEPT !.trimStart = Max(0, startTime),
                !.trimEnd = Min(pad.buffer.duration, endTime)]

setTrimPoints(padIndex, startTime, endTime) ==
    /\ pads' = IF ValidIndex(padIndex) /\ IsLoaded(pads[padIndex])
               THEN [pads EXCEPT ![padIndex] = TrimmedPad(@, startTime, endTime)]
               ELSE pads
    /\ last' = Done("setTrimPoints", padIndex, "returned")
    /\ UNCHANGED <<tasks, playbacks, batch, editor>>

\* variant: the window is reset without the loaded test
ResetPadOfUnguarded(pad) ==
    [pad EXCEPT !.trimStart = 0, !.trimEnd = pad.buffer.duration]

\* variant: only the end of the window is reset
ResetPadOfKeepsStart(pad) ==
    IF IsLoaded(pad)
    THEN [pad EXCEPT !.trimEnd = pad.buffer.duration]
    ELSE pad

ResetPadOf(pad) ==
    IF IsLoaded(pad)
    THEN [pad EXCEPT !.trimStart = 0, !.trimEnd = pad.buffer.duration]
    ELSE pad

\* variant: an out-of-range index is clamped to the nearest pad
resetPadClamped(padIndex) ==
    /\ pads' = [pads EXCEPT ![Max(0, Min(maxPads - 1, padIndex))] = ResetPadOf(@)]
    /\ last' = Done("resetPad", padIndex, "returned")
    /\ UNCHANGED <<tasks, playbacks, batch, editor>>

resetPad(padIndex) ==
    /\ pads' = IF ValidIndex(padIndex)
               THEN [pads EXCEPT ![padIndex] = ResetPadOf(@)]
               ELSE pads
    /\ last' = Done("resetPad", padIndex, "returned")
    /\ UNCHANGED <<tasks, playbacks, batch, editor>>

\* variant: the buffer is released and the loaded flag is left as it is
ClearedPadKeepsLoaded(pad) ==
    [pad EXCEPT !.buffer = NullBuffer, !.trimStart = 0, !.trimEnd = 1]

ClearedPad(pad) ==
    [pad EXCEPT !.buffer = NullBuffer, !.loaded = FALSE,
                !.trimStart = 0, !.trimEnd = 1]

clearAll ==
    /\ pads' = [i \in PadIndices |-> ClearedPad(pads[i])]
    /\ last' = Done("clearAll", NoPad, "returned")
    /\ UNCHANGED <<tasks, playbacks, batch, editor>>

(***************************************************************************)
(* loadSound: the index check and the start of the decode run in the call, *)
(* the assignment to the pad runs when the decode settles.                 *)
(***************************************************************************)
\* a load in flight: the arguments and locals of the suspended call
Task(op, pc, padIndex, audioData, name, cb) ==
    [op |-> op, pc |-> pc, pad |-> padIndex, data |-> audioData, name |-> name,
     cb |-> cb, url |-> 0, nread |-> 0, receivedLength |-> 0, reported |-> <<>>,
     slot |-> -1, soundName |-> "", run |-> 0]

\* variant: the decode is started without the index check
loadSoundUnchecked(padIndex, audioData, name, cb) ==
    /\ Len(tasks) < MaxInFlight
    /\ tasks' = Append(tasks,
            Task("loadSound", "decode", padIndex, audioData, name, cb))
    /\ last' = Done("loadSound", padIndex, "pending")
    /\ UNCHANGED <<pads, playbacks, batch, editor>>

\* the call up to `await this.ctx.decodeAudioData(audioData)`
loadSound(padIndex, audioData, name, cb) ==
    /\ Len(tasks) < MaxInFlight
    /\ IF ~ValidIndex(padIndex)
       THEN /\ tasks' = tasks
            /\ last' = Done("loadSound", padIndex, "InvalidIndexError")
       ELSE /\ tasks' = Append(tasks,
                    Task("loadSound", "decode", padIndex, audioData, name, cb))
            /\ last' = Done("loadSound", padIndex, "pending")
    /\ UNCHANGED <<pads, playbacks, batch, editor>>

\* loadSound called while earlier loads are in flight, up to MaxOverlap of
\* them together
loadSoundOverlapping(padIndex, audioData, name) ==
    /\ Len(tasks) < MaxOverlap
    /\ ValidIndex(padIndex)
    /\ tasks' = Append(tasks,
            Task("loadSound", "decode", padIndex, audioData, name, FALSE))
    /\ last' = Done("loadSound", padIndex, "pending")
    /\ UNCHANGED <<pads, playbacks, batch, editor>>

\* variant: a pad that holds a sound keeps its name when it is loaded again
LoadedPadKeepsName(pad, buffer, name) ==
    [pad EXCEPT !.buffer = buffer,
                !.name = IF pad.loaded THEN @
                         ELSE IF name # "" THEN name ELSE DefaultName(pad.index),
                !.loaded = TRUE,
                !.trimEnd = buffer.duration]

\* variant: trimEnd is not set to the new duration
LoadedPadKeepsTrimEnd(pad, buffer, name) ==
    [pad EXCEPT !.buffer = buffer,
                !.name = IF name # "" THEN name ELSE DefaultName(pad.index),
                !.loaded = TRUE]

\* the assignments after a successful decode
LoadedPad(pad, buffer, name) ==
    [pad EXCEPT !.buffer = buffer,
                !.name = IF name # "" THEN name ELSE DefaultName(pad.index),
                !.loaded = TRUE,
                !.trimEnd = buffer.duration]

(***************************************************************************)
(* The page's loadPresetSounds: what runs when a load it started settles   *)
(***************************************************************************)
\* the page before any batch: button enabled, status line empty; `promise` is
\* the state of the promise the last loadPresetSounds call returned. The last
\* three fields are the controls of the assignment solution's main script:
\* loadAllBtn.disabled, presetDropdown.value (<<>> stands for "") and, for
\* each of its loadPresetSounds calls in flight, the loads not yet settled
IdleBatch ==
    [loadingBtn |-> FALSE, soundURLs |-> <<>>, total |-> 0, results |-> <<>>,
     loadedCount |-> 0, statusClass |-> "", statusText |-> "", shown |-> <<0, 0>>,
     promise |-> "none",
     disabled |-> TRUE, value |-> <<>>, outstanding |-> [r \in 1 .. MaxBatches |-> 0]]

Pending(index) == [status |-> "pending", success |-> FALSE, index |-> index]

\* results.filter((r) => r.status === "fulfilled" && r.value.success).length
RECURSIVE SuccessCount(_)
SuccessCount(results) ==
    IF results = <<>> THEN 0
    ELSE (IF Head(results).status = "fulfilled" /\ Head(results).success
          THEN 1 ELSE 0) + SuccessCount(Tail(results))

\* variant: one failed source fails the batch
AllSettledStrict(b) ==
    LET successCount == SuccessCount(b.results) IN
    IF successCount < b.total
    THEN [b EXCEPT !.statusText = "Failed to load any sounds",
                   !.statusClass = "error",
                   !.loadingBtn = FALSE,
                   !.promise = "fulfilled"]
    ELSE [b EXCEPT !.statusText = "Loaded",
                   !.shown = <<successCount, b.total>>,
                   !.statusClass = "success",
                   !.loadingBtn = FALSE,
                   !.promise = "fulfilled"]

\* the rest of loadPresetSounds after `await Promise.allSettled(loadPromises)`:
\* the throw on zero successes is caught by the function's own catch block
AllSettled(b) ==
    LET successCount == SuccessCount(b.results) IN
    IF successCount = 0
    THEN [b EXCEPT !.statusText = "Failed to load any sounds",
                   !.statusClass = "error",
                   !.loadingBtn = FALSE,
                   !.promise = "fulfilled"]
    ELSE [b EXCEPT !.statusText = "Loaded",
                   !.shown = <<successCount, b.total>>,
                   !.statusClass = "success",
                   !.loadingBtn = FALSE,
                   !.promise = "fulfilled"]

\* variant: the map callback returns a success whatever the load did
LoadPromiseAlwaysSuccess(b, t, ok) ==
    IF t.slot < 0 THEN b
    ELSE LET r == [b EXCEPT !.results[t.slot + 1] =
                                [status |-> "fulfilled", success |-> TRUE,
                                 index |-> t.slot],
                            !.loadedCount = @ + 1]
         IN  IF \A k \in DOMAIN r.results : r.results[k].status = "fulfilled"
             THEN AllSettled(r) ELSE r

\* the map callback of loadPresetSounds after its `await loadSoundFromURL`:
\* it returns {success, index}; the last one to return lets allSettled resolve
\* a load of the main script's loadPresetSounds settled: when it is the last
\* of its call, Promise.allSettled resolves and the button is enabled
ScriptLoadSettled(b, t) ==
    [b EXCEPT !.outstanding[t.run] = @ - 1,
              !.disabled = IF b.outstanding[t.run] = 1 THEN FALSE ELSE @]

LoadPromise(b, t, ok) ==
    IF t.slot < 0 THEN b
    ELSE IF t.run > 0 THEN ScriptLoadSettled(b, t)
    ELSE LET r == [b EXCEPT !.results[t.slot + 1] =
                                [status |-> "fulfilled", success |-> ok,
                                 index |-> t.slot],
                            !.loadedCount = IF ok THEN @ + 1 ELSE @]
         IN  IF \A k \in DOMAIN r.results : r.results[k].status = "fulfilled"
             THEN AllSettled(r) ELSE r

\* `pad.name = soundName` of the map callback
Renamed(pad, t) == IF t.slot < 0 THEN pad ELSE [pad EXCEPT !.name = t.soundName]

\* variant: the decoded buffer goes to the pad of the oldest load in flight
decodeSettlesOldestPad(k) ==
    /\ k \in DOMAIN tasks
    /\ tasks[k].pc = "decode"
    /\ tasks' = RemoveAt(tasks, k)
    /\ LET t == tasks[k] IN
       IF Decodes(t.data)
       THEN /\ pads' = [pads EXCEPT
                          ![tasks[1].pad] = Renamed(LoadedPad(@, decodeAudioData(t.data),
                                                              t.name), t)]
            /\ last' = [Done(t.op, t.pad, "resolved") EXCEPT
                          !.reported = IF t.cb THEN Append(t.reported, 100)
                                               ELSE t.reported]
            /\ batch' = LoadPromise(batch, t, TRUE)
       ELSE /\ pads' = pads
            /\ last' = [Done(t.op, t.pad, "DecodeError") EXCEPT
                          !.reported = t.reported]
            /\ batch' = LoadPromise(batch, t, FALSE)
    /\ UNCHANGED <<playbacks, editor>>

\* variant: a failed decode empties the pad
decodeSettlesClearing(k) ==
    /\ k \in DOMAIN tasks
    /\ tasks[k].pc = "decode"
    /\ tasks' = RemoveAt(tasks, k)
    /\ LET t == tasks[k] IN
       IF Decodes(t.data)
       THEN /\ pads' = [pads EXCEPT
                          ![t.pad] = Renamed(LoadedPad(@, decodeAudioData(t.data),
                                                       t.name), t)]
            /\ last' = [Done(t.op, t.pad, "resolved") EXCEPT
                          !.reported = IF t.cb THEN Append(t.reported, 100)
                                               ELSE t.reported]
            /\ batch' = LoadPromise(batch, t, TRUE)
       ELSE /\ pads' = [pads EXCEPT ![t.pad] = ClearedPad(@)]
            /\ last' = [Done(t.op, t.pad, "DecodeError") EXCEPT
                          !.reported = t.reported]
            /\ batch' = LoadPromise(batch, t, FALSE)
    /\ UNCHANGED <<playbacks, editor>>

\* the decode settles: the call assigns and resolves, or rejects
decodeSettles(k) ==
    /\ k \in DOMAIN tasks
    /\ tasks[k].pc = "decode"
    /\ tasks' = RemoveAt(tasks, k)
    /\ LET t == tasks[k] IN
       IF Decodes(t.data)
       THEN /\ pads' = [pads EXCEPT
                          ![t.pad] = Renamed(LoadedPad(@, decodeAudioData(t.data),
                                                       t.name), t)]
            /\ last' = [Done(t.op, t.pad, "resolved") EXCEPT
                          !.reported = IF t.cb THEN Append(t.reported, 100)
                                               ELSE t.reported]
            /\ batch' = LoadPromise(batch, t, TRUE)
       ELSE /\ pads' = pads
            /\ last' = [Done(t.op, t.pad, "DecodeError") EXCEPT
                          !.reported = t.reported]
            /\ batch' = LoadPromise(batch, t, FALSE)
    /\ UNCHANGED <<playbacks, editor>>

(***************************************************************************)
(* loadSoundFromURL: fetch, read the body chunk by chunk, then loadSound   *)
(***************************************************************************)
\* what the transport answers for a locator: the path is a sequence of
\* segments, the last one written as its dot-separated parts; contentLength 0
\* stands for a response without a content-length header
Response(url) ==
    CASE url = 1 -> [ok |-> TRUE, status |-> 200, contentLength |-> 4,
                     chunks |-> <<2, 2>>, data |-> 1,
                     path |-> <<<<"sounds">>, <<"snare", "wav">>>>]
      [] url = 3 -> [ok |-> TRUE, status |-> 200, contentLength |-> 0,
                     chunks |-> <<3>>, data |-> 2,
                     path |-> <<<<"sounds">>, <<"kick", "mp3">>>>]
      [] url = 4 -> [ok |-> TRUE, status |-> 200, contentLength |-> 2,
                     chunks |-> <<2, 2>>, data |-> 2,
                     path |-> <<<<"sounds">>, <<"hat", "wav">>>>]
      [] url = 5 -> [ok |-> TRUE, status |-> 200, contentLength |-> 4,
                     chunks |-> <<4>>, data |-> 0,
                     path |-> <<<<"sounds">>, <<"noise", "wav">>>>]
      [] OTHER   -> [ok |-> FALSE, status |-> 404, contentLength |-> 0,
                     chunks |-> <<>>, data |-> 0,
                     path |-> <<<<"sounds">>, <<"missing", "wav">>>>]

RECURSIVE JoinDots(_)
JoinDots(parts) ==
    IF Len(parts) = 0 THEN ""
    ELSE IF Len(parts) = 1 THEN parts[1]
    ELSE parts[1] \o "." \o JoinDots(Tail(parts))

\* url.split("/").pop()?.replace(/\.[^/.]+$/, "") || "sound"
FileName(path) ==
    LET seg == path[Len(path)]
        stem == IF Len(seg) > 1 /\ seg[Len(seg)] # ""
                THEN SubSeq(seg, 1, Len(seg) - 1) ELSE seg
    IN  IF JoinDots(stem) = "" THEN "sound" ELSE JoinDots(stem)

\* the call up to `await fetch(url)`
loadSoundFromURL(padIndex, url, cb) ==
    /\ Len(tasks) < MaxInFlight
    /\ tasks' = Append(tasks,
            [Task("loadSoundFromURL", "fetch", padIndex, 0, "", cb) EXCEPT !.url = url])
    /\ last' = Done("loadSoundFromURL", padIndex, "pending")
    /\ UNCHANGED <<pads, playbacks, batch, editor>>

\* variant: the body is read whatever the response status is
fetchSettlesAnyStatus(k) ==
    /\ k \in DOMAIN tasks
    /\ tasks[k].pc = "fetch"
    /\ tasks' = [tasks EXCEPT ![k].pc = "read"]
    /\ last' = Done(tasks[k].op, tasks[k].pad, "pending")
    /\ UNCHANGED <<pads, playbacks, batch, editor>>

\* the fetch settles: a non-success response rejects the call
fetchSettles(k) ==
    /\ k \in DOMAIN tasks
    /\ tasks[k].pc = "fetch"
    /\ LET t == tasks[k] IN
       IF ~Response(t.url).ok
       THEN /\ tasks' = RemoveAt(tasks, k)
            /\ last' = [Done(t.op, t.pad, "FetchError") EXCEPT
                          !.status = Response(t.url).status]
            /\ batch' = LoadPromise(batch, t, FALSE)
       ELSE /\ tasks' = [tasks EXCEPT ![k].pc = "read"]
            /\ last' = Done(t.op, t.pad, "pending")
            /\ batch' = batch
    /\ UNCHANGED <<pads, playbacks, editor>>

\* one turn of the read loop that receives a chunk
readChunk(k) ==
    /\ k \in DOMAIN tasks
    /\ tasks[k].pc = "read"
    /\ tasks[k].nread < Len(Response(tasks[k].url).chunks)
    /\ LET t == tasks[k]
           resp == Response(t.url)
           received == t.receivedLength + resp.chunks[t.nread + 1]
           t2 == [t EXCEPT !.nread = @ + 1,
                           !.receivedLength = received,
                           !.reported =
                               IF t.cb /\ resp.contentLength # 0
                               THEN Append(@, (received * 100) \div resp.contentLength)
                               ELSE @]
       IN  /\ tasks' = [tasks EXCEPT ![k] = t2]
           /\ last' = [Done(t.op, t.pad, "pending") EXCEPT !.reported = t2.reported]
    /\ UNCHANGED <<pads, playbacks, batch, editor>>

\* the read loop ends: the chunks are combined and passed to loadSound
readDone(k) ==
    /\ k \in DOMAIN tasks
    /\ tasks[k].pc = "read"
    /\ tasks[k].nread = Len(Response(tasks[k].url).chunks)
    /\ LET t == tasks[k] IN
       IF ~ValidIndex(t.pad)
       THEN /\ tasks' = RemoveAt(tasks, k)
            /\ last' = [Done(t.op, t.pad, "InvalidIndexError") EXCEPT
                          !.reported = t.reported]
            /\ batch' = LoadPromise(batch, t, FALSE)
       ELSE /\ tasks' = [tasks EXCEPT ![k] =
                             [t EXCEPT !.pc = "decode",
                                       !.data = Response(t.url).data,
                                       !.name = FileName(Response(t.url).path)]]
            /\ last' = [Done(t.op, t.pad, "pending") EXCEPT !.reported = t.reported]
            /\ batch' = batch
    /\ UNCHANGED <<pads, playbacks, editor>>

(***************************************************************************)
(* loadPresetSounds: the call up to `await Promise.allSettled`             *)
(***************************************************************************)
\* soundNames[index] || `Sound ${index + 1}`
SoundName(name, index) == IF name # "" THEN name ELSE "Sound " \o ToString(index + 1)

\* the load the map callback starts for the source at `index`
PresetTask(sample, index) ==
    [Task("loadSoundFromURL", "fetch", index, 0, "", TRUE) EXCEPT
        !.url = sample[1],
        !.slot = index,
        !.soundName = SoundName(sample[2], index)]

loadPresetSounds(selectedPreset) ==
    /\ ~batch.loadingBtn
    /\ IF selectedPreset = <<>>
       THEN /\ UNCHANGED <<tasks, batch>>
            /\ last' = Done("loadPresetSounds", NoPad, "returned")
       ELSE LET preset == selectedPreset[1]
                soundURLs == SubSeq(preset, 1, Min(Len(preset), maxPads))
                totalSounds == Len(soundURLs)
            IN  IF Len(preset) = 0
                THEN /\ tasks' = tasks
                     /\ batch' = [IdleBatch EXCEPT
                                     !.statusText = "No sound files found in preset",
                                     !.statusClass = "error",
                                     !.promise = "fulfilled"]
                     /\ last' = Done("loadPresetSounds", NoPad, "returned")
                ELSE /\ tasks' = tasks \o
                            [k \in 1 .. totalSounds |-> PresetTask(soundURLs[k], k - 1)]
                     /\ batch' = [IdleBatch EXCEPT
                                     !.loadingBtn = TRUE,
                                     !.soundURLs = soundURLs,
                                     !.total = totalSounds,
                                     !.results = [k \in 1 .. totalSounds |-> Pending(k - 1)],
                                     !.statusText = "Loading preset",
                                     !.promise = "pending"]
                     /\ last' = Done("loadPresetSounds", NoPad, "pending")
    /\ UNCHANGED <<pads, playbacks, editor>>

(***************************************************************************)
(* The controls of the assignment solution's main script: the preset       *)
(* dropdown, the "load all" button and the loadPresetSounds it calls       *)
(***************************************************************************)
\* the controls after presetDropdown.onchange
Changed(b, value) ==
    [b EXCEPT !.value = value, !.disabled = (value = <<>>)]

presetDropdownOnchange(value) ==
    /\ batch' = Changed(batch, value)
    /\ last' = Done("presetDropdownOnchange", NoPad, "returned")
    /\ UNCHANGED <<pads, tasks, playbacks, editor>>

\* loadAllBtn.onclick, a click on the enabled button: loadPresetSounds of the
\* selected preset up to `await Promise.allSettled`
loadAllBtnOnclick ==
    /\ ~batch.disabled
    /\ \E r \in DOMAIN batch.outstanding : batch.outstanding[r] = 0
    /\ IF batch.value = <<>>
       THEN /\ UNCHANGED <<tasks, batch>>
            /\ last' = Done("loadAllBtnOnclick", NoPad, "returned")
       ELSE LET preset == batch.value[1]
                soundURLs == SubSeq(preset, 1, Min(Len(preset), maxPads))
                totalSounds == Len(soundURLs)
                run == CHOOSE r \in DOMAIN batch.outstanding :
                          /\ batch.outstanding[r] = 0
                          /\ \A q \in 1 .. (r - 1) : batch.outstanding[q] > 0
            IN  IF totalSounds = 0
                THEN /\ tasks' = tasks
                     /\ batch' = [batch EXCEPT !.disabled = FALSE]
                     /\ last' = Done("loadAllBtnOnclick", NoPad, "returned")
                ELSE /\ tasks' = tasks \o
                            [k \in 1 .. totalSounds |->
                                [PresetTask(soundURLs[k], k - 1) EXCEPT !.run = run]]
                     /\ batch' = [batch EXCEPT !.disabled = TRUE,
                                               !.outstanding[run] = totalSounds]
                     /\ last' = Done("loadAllBtnOnclick", NoPad, "pending")
    /\ UNCHANGED <<pads, playbacks, editor>>

(***************************************************************************)
(* play, _playBuffer and the sources they start                            *)
(***************************************************************************)
\* variant: the trim points are passed to the source as they are
PlayBufferUnclamped(buffer, startTime, endTime, gain) ==
    [buffer |-> buffer, offset |-> startTime, length |-> endTime - startTime,
     gain |-> gain]

\* variant: the end time is passed where the source takes a length
PlayBufferEndAsLength(buffer, startTime, endTime, gain) ==
    LET start == Max(0, Min(startTime, buffer.duration))
        end == Max(start, Min(endTime, buffer.duration))
    IN  [buffer |-> buffer, offset |-> start, length |-> end, gain |-> gain]

\* source.start(0, startTime, endTime - startTime) on a source with gain
PlayBuffer(buffer, startTime, endTime, gain) ==
    LET start == Max(0, Min(startTime, buffer.duration))
        end == Max(start, Min(endTime, buffer.duration))
    IN  [buffer |-> buffer, offset |-> start, length |-> end - start, gain |-> gain]

\* the sources play(padIndex) starts on the pads `ps`: one, or none
Started(ps, padIndex) ==
    IF ValidIndex(padIndex) /\ IsLoaded(ps[padIndex])
    THEN <<PlayBuffer(ps[padIndex].buffer, ps[padIndex].trimStart,
                      ps[padIndex].trimEnd, ps[padIndex].gain)>>
    ELSE <<>>

play(padIndex) ==
    /\ Len(playbacks) < MaxPlaybacks
    /\ playbacks' = playbacks \o Started(pads, padIndex)
    /\ last' = Done("play", padIndex,
                    IF Started(pads, padIndex) = <<>> THEN "warned" ELSE "started")
    /\ UNCHANGED <<pads, tasks, batch, editor>>

\* variant: the source reads the trim window when the handler has returned
handlePlayFullLate(selectedPadIndex) ==
    /\ Len(playbacks) < MaxPlaybacks
    /\ IF selectedPadIndex >= 0 /\ getPad(selectedPadIndex).loaded
       THEN /\ playbacks' = playbacks \o Started(pads, selectedPadIndex)
            /\ pads' = pads
            /\ last' = Done("handlePlayFull", selectedPadIndex, "started")
       ELSE /\ UNCHANGED <<pads, playbacks>>
            /\ last' = Done("handlePlayFull", selectedPadIndex, "returned")
    /\ UNCHANGED <<tasks, batch, editor>>

\* the "play full" button: widen the trim window, play, put the window back
handlePlayFull(selectedPadIndex) ==
    /\ Len(playbacks) < MaxPlaybacks
    /\ IF selectedPadIndex >= 0 /\ getPad(selectedPadIndex).loaded
       THEN LET pad == pads[selectedPadIndex]
                widened == [pads EXCEPT ![selectedPadIndex] =
                               [pad EXCEPT !.trimStart = 0,
                                           !.trimEnd = pad.buffer.duration]]
            IN  /\ playbacks' = playbacks \o Started(widened, selectedPadIndex)
                /\ pads' = [widened EXCEPT ![selectedPadIndex] =
                               [@ EXCEPT !.trimStart = pad.trimStart,
                                         !.trimEnd = pad.trimEnd]]
                /\ last' = Done("handlePlayFull", selectedPadIndex, "started")
       ELSE /\ UNCHANGED <<pads, playbacks>>
            /\ last' = Done("handlePlayFull", selectedPadIndex, "returned")
    /\ UNCHANGED <<tasks, batch, editor>>

\* the audio rendering path finishes a source
playbackEnds(k) ==
    /\ k \in DOMAIN playbacks
    /\ playbacks' = RemoveAt(playbacks, k)
    /\ last' = Done("ended", NoPad, "returned")
    /\ UNCHANGED <<pads, tasks, batch, editor>>

(***************************************************************************)
(* Numbers of the renderer: a quotient of integers, or the NaN or the      *)
(* infinity a division by zero produces                                    *)
(***************************************************************************)
Num(n, d) == [kind |-> "finite", num |-> n, den |-> d]
NaN == [kind |-> "NaN", num |-> 0, den |-> 1]
Infinity == [kind |-> "Infinity", num |-> 1, den |-> 1]
MinusInfinity == [kind |-> "Infinity", num |-> -1, den |-> 1]

Abs(n) == IF n < 0 THEN -n ELSE n

\* n / d of two integers, d >= 0
Divide(n, d) ==
    IF d # 0 THEN Num(n, d)
    ELSE IF n = 0 THEN NaN
    ELSE IF n > 0 THEN Infinity ELSE MinusInfinity

\* a > b of two numbers; a comparison with NaN is false
Greater(a, b) ==
    /\ a.kind # "NaN" /\ b.kind # "NaN"
    /\ IF a.kind = "Infinity" THEN a.num > 0 /\ b # a
       ELSE IF b.kind = "Infinity" THEN b.num < 0
       ELSE a.num * b.den > b.num * a.den

\* Math.round of a finite quotient with a positive denominator
Round(n, d) == (2 * n + d) \div (2 * d)

(***************************************************************************)
(* Decoded buffers as the drawers read them: buffer.length,                *)
(* buffer.numberOfChannels and getChannelData(c)[j], in quarters of the    *)
(* full scale                                                              *)
(***************************************************************************)
BufferLength(buffer) ==
    CASE buffer.id = 1 -> 1
      [] buffer.id = 2 -> 3
      [] buffer.id = 3 -> 20
      [] buffer.id = 4 -> 42
      [] OTHER -> 3010

numberOfChannels(buffer) == IF buffer.id = 4 THEN 2 ELSE 1

getChannelData(buffer, c, j) ==
    CASE buffer.id = 1 -> -1
      [] buffer.id \in {2, 3} -> 0
      [] buffer.id = 4 -> IF c = 0 THEN (j % 5) - 2 ELSE (j % 3) - 1
      [] OTHER -> (j % 7) - 3

(***************************************************************************)
(* WaveformDrawer, in its two implementations: "ts" is the drawer of the   *)
(* sampler page (means of blocks, extracted inside drawWave), "js" the     *)
(* drawer of the assignment solution (peaks of blocks, extracted in runs   *)
(* of chunkSize columns between animation frames)                          *)
(***************************************************************************)
\* this.sampleStep when init was called without the argument
Undefined == -1

\* this.peaks = null; an envelope is the buffer it is extracted from, its
\* length, the samples per column, the step between the samples read and the
\* number of columns written so far
NullPeaks == [buffer |-> NullBuffer, length |-> 0, blockSize |-> 0,
              step |-> 1, filled |-> 0]

\* what the canvas shows: nothing, the placeholder, or the waveform of an
\* envelope as it was when _drawWaveform read it
BlankCanvas == [shown |-> "blank", peaks |-> NullPeaks, width |-> 0, height |-> 0]

\* pending: processChunk is waiting for an animation frame (height is the
\* argument of the drawWave that waits for it); callbacks: the calls of the
\* completion callback; hung: processChunk is in a loop that never ends
NoWave == [impl |-> "none", decodedAudioBuffer |-> NullBuffer,
           displayWidth |-> 0, sampleStep |-> Undefined, peaks |-> NullPeaks,
           canvas |-> BlankCanvas, pending |-> FALSE, height |-> 0,
           callbacks |-> 0, hung |-> FALSE]

RECURSIVE SumAbs(_, _, _)
\* the sum of |rawData[from + j]| for j < count
SumAbs(buffer, from, count) ==
    IF count = 0 THEN 0
    ELSE IF count = 1 THEN Abs(getChannelData(buffer, 0, from))
    ELSE SumAbs(buffer, from, count \div 2)
            + SumAbs(buffer, from + (count \div 2), count - (count \div 2))

\* the samples the inner loop of processChunk reads in column i; a read after
\* the end of the channel is undefined and changes no peak
Visited(p, i) ==
    LET start == i * p.blockSize
    IN {j \in start .. (start + p.blockSize - 1) :
           /\ (j - start) % p.step = 0
           /\ j < BufferLength(p.buffer)}

RECURSIVE MaxAbs(_, _, _)
MaxAbs(buffer, c, js) ==
    IF js = {} THEN 0
    ELSE LET j == CHOOSE k \in js : TRUE
         IN Max(Abs(getChannelData(buffer, c, j)), MaxAbs(buffer, c, js \ {j}))

RECURSIVE SumPeaks(_, _, _)
\* the sum of the channels' peaks over the samples js, for the channels < c
SumPeaks(buffer, c, js) ==
    IF c = 0 THEN 0
    ELSE MaxAbs(buffer, c - 1, js) + SumPeaks(buffer, c - 1, js)

\* this.peaks[i] of the envelope p
PeakAt(impl, p, i) ==
    IF impl = "ts"
    THEN Divide(SumAbs(p.buffer, i * p.blockSize, p.blockSize), p.blockSize)
    ELSE IF i >= p.filled THEN Num(0, 1)
    ELSE Num(SumPeaks(p.buffer, numberOfChannels(p.buffer), Visited(p, i)),
             numberOfChannels(p.buffer))

RECURSIVE MaxFrom(_, _, _, _)
\* max(values) over the columns from lo up to hi - 1: the first of the
\* greatest values, -Infinity when no value is greater than it
MaxFrom(impl, p, lo, hi) ==
    IF hi <= lo THEN MinusInfinity
    ELSE IF hi = lo + 1
         THEN IF Greater(PeakAt(impl, p, lo), MinusInfinity)
              THEN PeakAt(impl, p, lo) ELSE MinusInfinity
    ELSE LET mid == (lo + hi) \div 2
             low == MaxFrom(impl, p, lo, mid)
             high == MaxFrom(impl, p, mid, hi)
         IN IF Greater(high, low) THEN high ELSE low

max(impl, p) == MaxFrom(impl, p, 0, p.length)

\* height / (2 * max(peaks))
Coef(impl, p, height) ==
    LET m == max(impl, p)
    IN IF m.kind = "Infinity" THEN Num(0, 1)
       ELSE Divide(height * m.den, 2 * m.num)

\* the y of the upper polyline at column i: halfH + Math.round(peaks[i] * coef)
PointY(impl, p, height, i) ==
    LET coef == Coef(impl, p, height)
        peak == PeakAt(impl, p, i)
    IN IF i >= p.length \/ peak.kind # "finite" \/ coef.kind = "NaN" THEN NaN
       ELSE IF coef.kind = "Infinity"
            THEN IF peak.num = 0 THEN NaN ELSE Infinity
       ELSE Num((height \div 2) + Round(peak.num * coef.num, peak.den * coef.den), 1)

\* init(decodedAudioBuffer, canvas, color)
Initialized(w, decodedAudioBuffer, width) ==
    [w EXCEPT !.decodedAudioBuffer = decodedAudioBuffer,
              !.displayWidth = width,
              !.sampleStep = Undefined]

\* _drawWaveform(startY, height)
Waveform(w, height) ==
    [w EXCEPT !.canvas = [shown |-> "waveform", peaks |-> w.peaks,
                          width |-> w.displayWidth, height |-> height]]

\* _drawLoadingPlaceholder()
Placeholder(w) ==
    [w EXCEPT !.canvas = [shown |-> "placeholder", peaks |-> NullPeaks,
                          width |-> w.displayWidth, height |-> 0]]

\* getPeaksAsync of the page's drawer: the whole envelope, before it returns
Extracted(w) ==
    [w EXCEPT !.peaks = [buffer |-> w.decodedAudioBuffer,
                         length |-> w.displayWidth,
                         blockSize |-> BufferLength(w.decodedAudioBuffer) \div w.displayWidth,
                         step |-> 1,
                         filled |-> w.displayWidth]]

\* _getPeaksChunked(callback) up to its first requestAnimationFrame
Chunked(w, height) ==
    LET sampleSize == (BufferLength(w.decodedAudioBuffer) + w.displayWidth - 1)
                          \div w.displayWidth
        sampleStep == IF w.sampleStep # Undefined /\ w.sampleStep # 0
                      THEN w.sampleStep ELSE sampleSize \div 10
    IN [w EXCEPT !.sampleStep = sampleStep,
                 !.peaks = [buffer |-> w.decodedAudioBuffer,
                            length |-> w.displayWidth,
                            blockSize |-> sampleSize,
                            step |-> sampleStep,
                            filled |-> 0],
                 !.pending = TRUE,
                 !.height = height]

\* processChunk(): the columns from currentPixel to endPixel and, after the
\* last column, the callback and the continuation of drawWave; with a step of
\* 0 the loop over the samples of the first column never ends
ProcessedChunk(w) ==
    LET endPixel == Min(w.peaks.filled + chunkSize, w.displayWidth)
        filled == [w EXCEPT !.peaks.filled = endPixel]
    IN IF w.sampleStep = 0 THEN [w EXCEPT !.hung = TRUE, !.pending = FALSE]
       ELSE IF endPixel < w.displayWidth THEN filled
       ELSE Waveform([filled EXCEPT !.pending = FALSE, !.callbacks = @ + 1],
                     w.height)

\* drawWave(startY, height), with the continuation of the page's drawer, which
\* runs before any other handler does
DrawnWave(w, height) ==
    IF w.peaks # NullPeaks THEN Waveform(w, height)
    ELSE IF w.impl = "js" THEN Placeholder(Chunked(w, height))
    ELSE IF w.decodedAudioBuffer = NullBuffer THEN Placeholder(w)
    ELSE Waveform(Extracted(w), height)

\* new WaveformDrawer()
WaveformDrawer(impl) ==
    /\ wave.impl = "none"
    /\ wave' = [NoWave EXCEPT !.impl = impl]
    /\ last' = Done("WaveformDrawer", NoPad, "returned")
    /\ UNCHANGED <<pads, tasks, playbacks, batch, bars, page>>

\* init(decodedAudioBuffer, canvas, color) with a canvas of the given width;
\* the callers wait for a pending extraction before they present a buffer
init(decodedAudioBuffer, width) ==
    /\ wave.impl # "none" /\ ~wave.hung /\ ~wave.pending
    /\ wave' = Initialized(wave, decodedAudioBuffer, width)
    /\ last' = Done("init", NoPad, "returned")
    /\ UNCHANGED <<pads, tasks, playbacks, batch, bars, page>>

\* drawWave(startY, height), after init
drawWave(height) ==
    /\ wave.impl # "none" /\ ~wave.hung
    /\ wave.decodedAudioBuffer # NullBuffer
    /\ wave' = DrawnWave(wave, height)
    /\ last' = Done("drawWave", NoPad, "returned")
    /\ UNCHANGED <<pads, tasks, playbacks, batch, bars, page>>

\* the animation frame processChunk was scheduled for
processChunk ==
    /\ wave.pending /\ ~wave.hung
    /\ wave' = ProcessedChunk(wave)
    /\ last' = Done("processChunk", NoPad,
                    IF wave.sampleStep = 0 THEN "hung" ELSE "returned")
    /\ UNCHANGED <<pads, tasks, playbacks, batch, bars, page>>

(***************************************************************************)
(* TrimbarsDrawer, in its two implementations: "ts" is the drawer of the   *)
(* sampler page (swap on move, radius 60), "js" the drawer of the          *)
(* assignment solution (clamp on drag, radius 25)                          *)
(***************************************************************************)
Implementations == {"ts", "js"}

Radius(impl) == IF impl = "ts" THEN 60 ELSE 25
\* the height of the point of a bar the pointer is measured against
ReferenceY(impl) == IF impl = "ts" THEN 0 ELSE 18

\* distance(x1, y1, x2, y2) < r, compared on the squares
DistanceBelow(x1, y1, x2, y2, r) ==
    (x2 - x1) * (x2 - x1) + (y2 - y1) * (y2 - y1) < r * r

TrimBar(x) == [x |-> x, selected |-> FALSE, dragged |-> FALSE]

\* no drawer is constructed yet; held is history: while one bar alone is
\* dragged, the x the other bar had when the drag began
NoBars == [impl |-> "none", left |-> TrimBar(0), right |-> TrimBar(0),
           held |-> 0]

\* highLightTrimBarsWhenClose(mousePos)
Highlighted(b, mousePos) ==
    LET near(bar) == DistanceBelow(bar.x, ReferenceY(b.impl), mousePos.x,
                                   mousePos.y, Radius(b.impl))
    IN  IF b.impl = "ts"
        THEN [b EXCEPT !.left.selected = near(b.left),
                       !.right.selected = near(b.right)]
        ELSE LET leftSelected == near(b.left) /\ ~b.right.selected
                 rightSelected == near(b.right) /\ ~leftSelected
             IN  [b EXCEPT !.left.selected = leftSelected,
                           !.right.selected = rightSelected]

\* variant: a dragged bar follows the pointer and the bars are left as they are
MovedWithoutOrder(b, mousePos) ==
    LET h == Highlighted(b, mousePos)
    IN  [h EXCEPT !.left.x = IF h.left.dragged THEN mousePos.x ELSE @,
                  !.right.x = IF h.right.dragged THEN mousePos.x ELSE @]

\* the bars after moveTrimBars(mousePos)
Moved(b, mousePos) ==
    LET h == Highlighted(b, mousePos)
    IN  IF b.impl = "ts"
        THEN LET leftX == IF h.left.dragged THEN mousePos.x ELSE h.left.x
                 rightX == IF h.right.dragged THEN mousePos.x ELSE h.right.x
             IN  IF leftX > rightX
                 THEN [h EXCEPT !.left.x = rightX, !.right.x = leftX]
                 ELSE [h EXCEPT !.left.x = leftX, !.right.x = rightX]
        ELSE LET clampedX == Max(0, Min(mousePos.x, canvasWidth))
                 leftX == IF h.left.dragged /\ clampedX < h.right.x
                          THEN clampedX ELSE h.left.x
                 rightX == IF h.right.dragged /\ clampedX > leftX
                           THEN clampedX ELSE h.right.x
             IN  [h EXCEPT !.left.x = leftX, !.right.x = rightX]

\* variant: a pointer-down drags both bars, selected or not
DragStartedUnselected(b) ==
    [b EXCEPT !.left.dragged = TRUE, !.right.dragged = TRUE]

\* the bars after startDrag()
DragStarted(b) ==
    LET started == ~b.left.dragged /\ ~b.right.dragged
    IN  [b EXCEPT !.left.dragged = IF b.left.selected THEN TRUE ELSE @,
                  !.right.dragged = IF b.right.selected THEN TRUE ELSE @,
                  !.held = IF started /\ b.left.selected /\ ~b.right.selected
                           THEN b.right.x
                           ELSE IF started /\ b.right.selected /\ ~b.left.selected
                           THEN b.left.x
                           ELSE @]

\* the bars after stopDrag()
DragStopped(b) ==
    IF b.impl = "ts"
    THEN [b EXCEPT !.left.dragged = FALSE, !.right.dragged = FALSE, !.held = 0]
    ELSE LET l == IF b.left.dragged
                  THEN [b EXCEPT !.left.dragged = FALSE,
                                 !.left.selected = FALSE,
                                 !.left.x = IF @ > b.right.x THEN b.right.x ELSE @]
                  ELSE b
         IN  IF l.right.dragged
             THEN [l EXCEPT !.right.dragged = FALSE,
                            !.right.selected = FALSE,
                            !.right.x = IF @ < l.left.x THEN l.left.x ELSE @,
                            !.held = 0]
             ELSE [l EXCEPT !.held = 0]

\* new TrimbarsDrawer(canvas, leftTrimBarX, rightTrimBarX)
TrimbarsDrawer(impl, leftTrimBarX, rightTrimBarX) ==
    /\ bars.impl = "none"
    /\ bars' = [bars EXCEPT !.impl = impl,
                            !.left = TrimBar(leftTrimBarX),
                            !.right = TrimBar(rightTrimBarX)]
    /\ last' = Done("TrimbarsDrawer", NoPad, "returned")
    /\ UNCHANGED <<pads, tasks, playbacks, batch, wave, page>>

moveTrimBars(mousePos) ==
    /\ bars.impl # "none"
    /\ bars' = Moved(bars, mousePos)
    /\ last' = Done("moveTrimBars", NoPad, "returned")
    /\ UNCHANGED <<pads, tasks, playbacks, batch, wave, page>>

startDrag ==
    /\ bars.impl # "none"
    /\ bars' = DragStarted(bars)
    /\ last' = Done("startDrag", NoPad, "returned")
    /\ UNCHANGED <<pads, tasks, playbacks, batch, wave, page>>

stopDrag ==
    /\ bars.impl # "none"
    /\ bars' = DragStopped(bars)
    /\ last' = Done("stopDrag", NoPad, "returned")
    /\ UNCHANGED <<pads, tasks, playbacks, batch, wave, page>>

(***************************************************************************)
(* The waveform editor of the sampler page: selectPad and its timer, the   *)
(* pointer listeners of the overlay canvas, the reset button               *)
(***************************************************************************)
pixelToSeconds(x, bufferDuration, width) == (x * bufferDuration) \div width

\* updateTrimBarsFromPad(), as the effect that installed the listeners left
\* it in updateTrimBarsFromPadRef: it reads the pad that was selected then
updateTrimBarsFromPad(b) ==
    IF page.listeners < 0 \/ ~IsLoaded(pads[page.listeners]) THEN b
    ELSE LET pad == pads[page.listeners]
             duration == pad.buffer.duration
             trimStart == Max(0, Min(pad.trimStart, duration))
             trimEnd == Max(trimStart,
                            Min(IF pad.trimEnd # 0 THEN pad.trimEnd ELSE duration,
                                duration))
         IN [b EXCEPT !.left.x = (trimStart * canvasWidth) \div duration,
                      !.right.x = (trimEnd * canvasWidth) \div duration]

\* the pad's button can be clicked: updatePadButton enabled it when a load of
\* the pad completed and no later load has disabled it again
PadButtonEnabled(padIndex) ==
    /\ pads[padIndex].loaded
    /\ \A k \in DOMAIN tasks : tasks[k].pad # padIndex

\* selectPadRef.current(padIndex), with the render it asks for and the effect
\* of that render: the listeners are installed again when the selected pad
\* changed and the canvases are on the page
selectPad(padIndex) ==
    LET loaded == pads[padIndex].loaded
        shown == page.showWaveform \/ loaded
    IN /\ PadButtonEnabled(padIndex)
       /\ loaded => Len(page.timers) < MaxTimers
       /\ page' = [selectedPadIndex |-> padIndex,
                   showWaveform |-> shown,
                   listeners |-> IF padIndex # page.selectedPadIndex /\ shown
                                 THEN padIndex ELSE page.listeners,
                   timers |-> IF loaded THEN Append(page.timers, padIndex)
                              ELSE page.timers]
       /\ last' = Done("selectPad", padIndex, "returned")
       /\ UNCHANGED <<pads, tasks, playbacks, batch, bars, wave>>

\* the callback selectPad left with setTimeout: the waveform of the pad's
\* buffer, the trim bars (constructed at the first call) at the pad's window
selectPadTimeout ==
    /\ page.timers # <<>>
    /\ LET pad == pads[Head(page.timers)]
           drawer == IF wave.impl = "none" THEN [NoWave EXCEPT !.impl = "ts"]
                     ELSE wave
           trimbars == IF bars.impl = "none"
                       THEN [NoBars EXCEPT !.impl = "ts",
                                           !.left = TrimBar(100),
                                           !.right = TrimBar(canvasWidth - 100)]
                       ELSE bars
       IN /\ wave' = DrawnWave(Initialized(drawer, pad.buffer, canvasWidth),
                               canvasHeight)
          /\ bars' = updateTrimBarsFromPad(trimbars)
    /\ page' = [page EXCEPT !.timers = Tail(@)]
    /\ last' = Done("selectPadTimeout", NoPad, "returned")
    /\ UNCHANGED <<pads, tasks, playbacks, batch>>

handleMouseMove(mousePos) ==
    /\ page.listeners >= 0
    /\ bars' = IF bars.impl = "none" THEN bars ELSE Moved(bars, mousePos)
    /\ last' = Done("handleMouseMove", page.listeners, "returned")
    /\ UNCHANGED <<pads, tasks, playbacks, batch, wave, page>>

handleMouseDown ==
    /\ page.listeners >= 0
    /\ bars' = IF bars.impl = "none" THEN bars ELSE DragStarted(bars)
    /\ last' = Done("handleMouseDown", page.listeners, "returned")
    /\ UNCHANGED <<pads, tasks, playbacks, batch, wave, page>>

\* handleMouseUp: stopDrag(), then updatePadFromTrimBars()
handleMouseUp ==
    /\ page.listeners >= 0
    /\ bars' = IF bars.impl = "none" THEN bars ELSE DragStopped(bars)
    /\ pads' = IF bars.impl = "none" \/ ~IsLoaded(pads[page.listeners]) THEN pads
               ELSE LET duration == pads[page.listeners].buffer.duration
                    IN [pads EXCEPT ![page.listeners] =
                           TrimmedPad(@,
                               pixelToSeconds(bars'.left.x, duration, canvasWidth),
                               pixelToSeconds(bars'.right.x, duration, canvasWidth))]
    /\ last' = Done("handleMouseUp", page.listeners, "returned")
    /\ UNCHANGED <<tasks, playbacks, batch, wave, page>>

\* the pointer button is released outside the overlay canvas: mouseup is
\* listened to on the overlay canvas only, so no handler of the page runs
mouseUpOutside ==
    /\ page.listeners >= 0
    /\ last' = Done("mouseUpOutside", page.listeners, "returned")
    /\ UNCHANGED <<pads, tasks, playbacks, batch, bars, wave, page>>

\* handleResetTrim: resetPad(selectedPadIndex), then the bars from the pad
handleResetTrim ==
    /\ page.showWaveform
    /\ pads' = IF page.selectedPadIndex >= 0
               THEN [pads EXCEPT ![page.selectedPadIndex] = ResetPadOf(@)]
               ELSE pads
    /\ bars' = IF page.selectedPadIndex >= 0 /\ bars.impl # "none"
                  /\ page.listeners >= 0 /\ IsLoaded(pads[page.listeners])
               THEN LET duration == pads'[page.listeners].buffer.duration
                        pad == pads'[page.listeners]
                        trimStart == Max(0, Min(pad.trimStart, duration))
                        trimEnd == Max(trimStart,
                                       Min(IF pad.trimEnd # 0 THEN pad.trimEnd
                                           ELSE duration, duration))
                    IN [bars EXCEPT !.left.x = (trimStart * canvasWidth) \div duration,
                                    !.right.x = (trimEnd * canvasWidth) \div duration]
               ELSE bars
    /\ last' = Done("handleResetTrim", page.selectedPadIndex, "returned")
    /\ UNCHANGED <<tasks, playbacks, batch, wave, page>>

(***************************************************************************)
(* The specifications                                                      *)
(***************************************************************************)
Init ==
    /\ pads = initializePads
    /\ tasks = <<>>
    /\ playbacks = <<>>
    /\ batch = IdleBatch
    /\ bars = NoBars
    /\ wave = NoWave
    /\ page = NoPage
    /\ last = Done("new", NoPad, "returned")

\* the pad store under loads, trims, resets and clears
Next ==
    \/ \E i \in PadArgs, s \in TimeArgs, e \in TimeArgs : setTrimPoints(i, s, e)
    \/ \E i \in PadArgs : resetPad(i)
    \/ clearAll
    \/ \E i \in PadArgs, a \in LoadArgs : loadSound(i, a[1], a[2], FALSE)
    \/ \E k \in DOMAIN tasks : decodeSettles(k)

Spec == Init /\ [][Next]_vars

\* the pad store and the playbacks it starts
NextPlay ==
    \/ \E i \in PlayPadArgs, s \in TimeArgs, e \in TimeArgs : setTrimPoints(i, s, e)
    \/ \E i \in PlayPadArgs : resetPad(i)
    \/ clearAll
    \/ \E i \in PlayPadArgs, a \in PlayLoadArgs : loadSound(i, a[1], a[2], FALSE)
    \/ \E k \in DOMAIN tasks : decodeSettles(k)
    \/ \E i \in PlayPadArgs : play(i)
    \/ \E i \in PlayPadArgs \cap (-1 .. (maxPads - 1)) : handlePlayFull(i)
    \/ \E k \in DOMAIN playbacks : playbackEnds(k)

SpecPlay == Init /\ [][NextPlay]_vars

\* the pad store under loads from locators and from bytes
NextURL ==
    \/ \E i \in PadArgs, u \in Urls, cb \in BOOLEAN : loadSoundFromURL(i, u, cb)
    \/ \E k \in DOMAIN tasks : fetchSettles(k)
    \/ \E k \in DOMAIN tasks : readChunk(k)
    \/ \E k \in DOMAIN tasks : readDone(k)
    \/ \E i \in PadArgs, a \in LoadArgs, cb \in BOOLEAN : loadSound(i, a[1], a[2], cb)
    \/ \E k \in DOMAIN tasks : decodeSettles(k)
    \/ \E i \in PadArgs : resetPad(i)
    \/ clearAll

SpecURL == Init /\ [][NextURL]_vars

\* the waveform of either implementation under buffers of several lengths
NextWave ==
    \/ \E impl \in Implementations : WaveformDrawer(impl)
    \/ \E d \in WaveData, width \in Widths : init(decodeAudioData(d), width)
    \/ drawWave(canvasHeight)
    \/ processChunk

SpecWave == Init /\ [][NextWave]_vars

\* the waveform editor of the page: pads are loaded and selected, the bars
\* are dragged and released
NextTrim ==
    \/ \E i \in EditedPads, a \in EditedLoadArgs : loadSound(i, a[1], a[2], FALSE)
    \/ \E k \in DOMAIN tasks : decodeSettles(k)
    \/ \E i \in EditedPads : selectPad(i)
    \/ selectPadTimeout
    \/ \E mousePos \in PagePositions : handleMouseMove(mousePos)
    \/ handleMouseDown
    \/ handleMouseUp
    \/ mouseUpOutside
    \/ handleResetTrim

SpecTrim == Init /\ [][NextTrim]_vars

\* the trim bars of either implementation under pointer events
NextBars ==
    \/ \E impl \in Implementations, xs \in BarArgs :
          TrimbarsDrawer(impl, xs[1], xs[2])
    \/ \E mousePos \in MousePositions : moveTrimBars(mousePos)
    \/ startDrag
    \/ stopDrag

SpecBars == Init /\ [][NextBars]_vars

\* the controls of the assignment solution's main script and its batch loads
NextScript ==
    \/ \E value \in ScriptValues : presetDropdownOnchange(value)
    \/ loadAllBtnOnclick
    \/ \E k \in DOMAIN tasks : fetchSettles(k)
    \/ \E k \in DOMAIN tasks : readChunk(k)
    \/ \E k \in DOMAIN tasks : readDone(k)
    \/ \E k \in DOMAIN tasks : decodeSettles(k)

SpecScript == Init /\ [][NextScript]_vars

\* loads that overlap, on the same pad and on different pads
NextOverlap ==
    \/ \E i \in OverlapPads, a \in LoadArgs : loadSoundOverlapping(i, a[1], a[2])
    \/ \E k \in DOMAIN tasks : decodeSettles(k)

SpecOverlap == Init /\ [][NextOverlap]_vars

\* loads from locators with a progress callback, on one pad
NextProgress ==
    \/ \E u \in ProgressUrls, cb \in BOOLEAN : loadSoundFromURL(0, u, cb)
    \/ \E k \in DOMAIN tasks : fetchSettles(k)
    \/ \E k \in DOMAIN tasks : readChunk(k)
    \/ \E k \in DOMAIN tasks : readDone(k)
    \/ \E k \in DOMAIN tasks : decodeSettles(k)

SpecProgress == Init /\ [][NextProgress]_vars

\* the page's batch load and the loads it keeps in flight together
NextBatch ==
    \/ \E selectedPreset \in PresetArgs : loadPresetSounds(selectedPreset)
    \/ \E k \in DOMAIN tasks : fetchSettles(k)
    \/ \E k \in DOMAIN tasks : readChunk(k)
    \/ \E k \in DOMAIN tasks : readDone(k)
    \/ \E k \in DOMAIN tasks : decodeSettles(k)

SpecBatch == Init /\ [][NextBatch]_vars

(***************************************************************************)
(* Properties of the pad store                                             *)
(***************************************************************************)
InvalidArgs == {i \in PadArgs : ~ValidIndex(i)}
LoadedPads == {i \in PadIndices : pads[i].loaded}

\* C1 (as stated): every pad with loaded = true satisfies
\* 0 <= trimStart <= trimEnd <= buffer.duration.
C1_TrimWindowOrdered ==
    \A i \in LoadedPads :
        /\ 0 <= pads[i].trimStart
        /\ pads[i].trimStart <= pads[i].trimEnd
        /\ pads[i].trimEnd <= pads[i].buffer.duration

\* C1 (amended): every pad with loaded = true satisfies 0 <= trimStart and
\* trimEnd <= buffer.duration; the order of trimStart and trimEnd is not kept.
C1_TrimWindowBounded ==
    \A i \in LoadedPads :
        /\ 0 <= pads[i].trimStart
        /\ pads[i].trimEnd <= pads[i].buffer.duration

C1_Witness ==
    /\ last.op = "setTrimPoints"
    /\ last.pad \in LoadedPads
    /\ pads[last.pad].trimStart > pads[last.pad].buffer.duration
    /\ pads[last.pad].trimEnd < 0

\* C2: setTrimPoints(i, s, e) on a loaded pad i leaves getPad(i) with
\* trimStart = max(0, s) and trimEnd = min(buffer.duration, e), not reordered,
\* and changes no other field of pad i and no other pad.
C2_SetTrimPointsExact ==
    [][\A i \in {last'.pad} \cap PadIndices, s \in TimeArgs, e \in TimeArgs :
          (setTrimPoints(i, s, e) /\ IsLoaded(pads[i])) =>
              /\ getPad(i)'.trimStart = Max(0, s)
              /\ getPad(i)'.trimEnd = Min(pads[i].buffer.duration, e)
              /\ getPad(i)' = [pads[i] EXCEPT !.trimStart = getPad(i)'.trimStart,
                                              !.trimEnd = getPad(i)'.trimEnd]
              /\ \A j \in PadIndices \ {i} : pads'[j] = pads[j]]_vars

C2_Witness ==
    /\ last.op = "setTrimPoints"
    /\ last.pad = 0
    /\ IsLoaded(pads[0])
    /\ IsLoaded(pads[1])
    /\ pads[0].buffer.duration = 4
    /\ pads[0].trimStart = 3
    /\ pads[0].trimEnd = 1

\* the source a step has started, when it has started one
StartsOne == Len(playbacks') = Len(playbacks) + 1
NewPlayback == playbacks'[Len(playbacks')]

\* C3: every play(i) on a loaded pad starts a playback of the pad's buffer with
\* the pad's gain, an offset in [0, buffer.duration], a length >= 0 and
\* offset + length <= buffer.duration, whatever trimStart and trimEnd hold.
C3_PlaybackInsideBuffer ==
    [][\A i \in {last'.pad} \cap PadIndices :
          (play(i) /\ IsLoaded(pads[i])) =>
              /\ StartsOne
              /\ NewPlayback.buffer = pads[i].buffer
              /\ NewPlayback.gain = pads[i].gain
              /\ 0 <= NewPlayback.offset
              /\ NewPlayback.offset <= pads[i].buffer.duration
              /\ NewPlayback.length >= 0
              /\ NewPlayback.offset + NewPlayback.length
                    <= pads[i].buffer.duration]_vars

C3_Witness ==
    /\ last.op = "play"
    /\ last.outcome = "started"
    /\ last.pad \in LoadedPads
    /\ pads[last.pad].trimStart > pads[last.pad].buffer.duration
    /\ pads[last.pad].trimEnd < 0
    /\ playbacks # <<>>
    /\ playbacks[Len(playbacks)].buffer = pads[last.pad].buffer
    /\ playbacks[Len(playbacks)].length = 0

\* C4: when a loaded pad has 0 <= trimStart <= trimEnd <= buffer.duration,
\* play(i) starts a playback with offset = trimStart and
\* length = trimEnd - trimStart.
C4_PlaybackIsTrimWindow ==
    [][\A i \in {last'.pad} \cap PadIndices :
          (/\ play(i)
           /\ IsLoaded(pads[i])
           /\ 0 <= pads[i].trimStart
           /\ pads[i].trimStart <= pads[i].trimEnd
           /\ pads[i].trimEnd <= pads[i].buffer.duration) =>
              /\ StartsOne
              /\ NewPlayback.offset = pads[i].trimStart
              /\ NewPlayback.length = pads[i].trimEnd - pads[i].trimStart]_vars

\* the 2-second buffer trimmed to [0.5 s, 1.5 s] plays 1.0 s from 0.5 s
C4_Witness ==
    /\ last.op = "play"
    /\ last.outcome = "started"
    /\ last.pad = 0
    /\ pads[0].buffer.duration = 4
    /\ pads[0].trimStart = 1
    /\ pads[0].trimEnd = 3
    /\ playbacks # <<>>
    /\ playbacks[Len(playbacks)].offset = 1
    /\ playbacks[Len(playbacks)].length = 2

\* C5: the window of a playback is fixed when it is started: no later
\* setTrimPoints, resetPad, loadSound or clearAll, nor the restore that ends
\* handlePlayFull, changes a playback that is already started; a playback
\* leaves only when it ends.
C5_PlaybackWindowCaptured ==
    [][/\ last'.op # "ended" =>
             /\ Len(playbacks') >= Len(playbacks)
             /\ SubSeq(playbacks', 1, Len(playbacks)) = playbacks
       /\ last'.op = "ended" =>
             \E k \in DOMAIN playbacks : playbacks' = RemoveAt(playbacks, k)
       /\ \A i \in {last'.pad} \cap PadIndices :
             (handlePlayFull(i) /\ pads[i].loaded) =>
                 /\ pads' = pads
                 /\ StartsOne
                 /\ NewPlayback.offset = 0
                 /\ NewPlayback.length = pads[i].buffer.duration]_vars

C5_Witness ==
    /\ last.op \in {"setTrimPoints", "handlePlayFull"}
    /\ IsLoaded(pads[0])
    /\ pads[0].trimStart = 3
    /\ pads[0].trimEnd = 3
    /\ \E k \in DOMAIN playbacks :
          /\ playbacks[k].buffer = pads[0].buffer
          /\ playbacks[k].offset = 0
          /\ playbacks[k].length = 4

\* C6: when loadSound(i, bytes) succeeds, pad i is loaded, holds the newly
\* decoded buffer and has trimEnd = the new buffer's duration, and every other
\* pad is unchanged.
C6_LoadReplacesBuffer ==
    [][\A k \in DOMAIN tasks :
          (decodeSettles(k) /\ Decodes(tasks[k].data)) =>
              LET i == tasks[k].pad IN
              /\ last'.outcome = "resolved"
              /\ pads'[i].loaded
              /\ pads'[i].buffer = decodeAudioData(tasks[k].data)
              /\ pads'[i].trimEnd = decodeAudioData(tasks[k].data).duration
              /\ \A j \in PadIndices \ {i} : pads'[j] = pads[j]]_vars

\* a reload: the pad was trimmed under a longer buffer before
C6_Witness ==
    /\ last.op = "loadSound"
    /\ last.outcome = "resolved"
    /\ last.pad = 0
    /\ pads[0].loaded
    /\ pads[0].buffer = decodeAudioData(1)
    /\ pads[0].trimStart = 3
    /\ pads[0].trimEnd = 2
    /\ pads[1].loaded

\* C7: a successful loadSound leaves the pad with trimStart = 0 and
\* trimEnd = buffer.duration, also when the pad was loaded and trimmed before.
C7_LoadResetsTrimWindow ==
    [][\A k \in DOMAIN tasks :
          (decodeSettles(k) /\ Decodes(tasks[k].data)) =>
              /\ pads'[tasks[k].pad].trimStart = 0
              /\ pads'[tasks[k].pad].trimEnd
                    = pads'[tasks[k].pad].buffer.duration]_vars

\* C8: when the decode of loadSound(i, bytes) fails, the call rejects with the
\* decode error, and neither the call nor the failure changes any pad.
C8_FailedDecodeKeepsPads ==
    [][/\ \A k \in DOMAIN tasks :
             (decodeSettles(k) /\ ~Decodes(tasks[k].data)) =>
                 /\ last'.outcome = "DecodeError"
                 /\ pads' = pads
       /\ \A i \in {last'.pad} \cap PadArgs, a \in LoadArgs :
             loadSound(i, a[1], a[2], FALSE) => pads' = pads]_vars

C8_Witness ==
    /\ last.op = "loadSound"
    /\ last.outcome = "DecodeError"
    /\ last.pad = 0
    /\ pads[0].loaded
    /\ pads[0].name = "kick"
    /\ pads[0].trimStart = 1
    /\ ~pads[1].loaded

\* loadSound with an out-of-range index rejects with the invalid-index error
\* in the call, starts no decode and changes no pad
LoadSoundRejectsIndex ==
    \A i \in {last'.pad} \cap InvalidArgs, a \in LoadArgs, cb \in BOOLEAN :
        loadSound(i, a[1], a[2], cb) =>
            /\ last'.outcome = "InvalidIndexError"
            /\ tasks' = tasks
            /\ pads' = pads

\* C9 (as stated): loadSound with an out-of-range index fails with the
\* invalid-index error before a decode is attempted and changes no pad, and
\* the same outcome results when the index is passed through loadSoundFromURL.
C9_InvalidIndexAlways ==
    [][/\ LoadSoundRejectsIndex
       /\ \A k \in DOMAIN tasks :
             (~ValidIndex(tasks[k].pad) /\ tasks' = RemoveAt(tasks, k)) =>
                 /\ last'.outcome = "InvalidIndexError"
                 /\ pads' = pads]_vars

\* C9 (amended): loadSound with an out-of-range index fails with the
\* invalid-index error before a decode is attempted and changes no pad;
\* through loadSoundFromURL the index is checked when the body has been read:
\* the call fails with the invalid-index error after a successful retrieval
\* and with the fetch error after a failed one, and in both cases no decode is
\* attempted and no pad changes.
C9_InvalidIndexRejected ==
    [][/\ LoadSoundRejectsIndex
       /\ \A k \in DOMAIN tasks :
             ~ValidIndex(tasks[k].pad) =>
                 /\ tasks[k].pc # "decode"
                 /\ readDone(k) =>
                       /\ last'.outcome = "InvalidIndexError"
                       /\ tasks' = RemoveAt(tasks, k)
                 /\ fetchSettles(k) =>
                       IF Response(tasks[k].url).ok
                       THEN /\ last'.outcome = "pending"
                            /\ tasks'[k].pc = "read"
                       ELSE /\ last'.outcome = "FetchError"
                            /\ tasks' = RemoveAt(tasks, k)
                 /\ tasks' = RemoveAt(tasks, k) =>
                       /\ last'.outcome \in {"InvalidIndexError", "FetchError"}
                       /\ pads' = pads]_vars

C9_Witness ==
    /\ last.op = "loadSoundFromURL"
    /\ last.outcome = "InvalidIndexError"
    /\ last.pad = maxPads
    /\ tasks = <<>>
    /\ pads[0].loaded

\* C10: for every padIndex outside [0,16), play, setTrimPoints and resetPad
\* return normally, change no pad and start no playback, and getPad returns
\* the absent value.
C10_InvalidIndexNoOp ==
    [][\A i \in {last'.pad} \cap InvalidArgs :
          /\ getPad(i) = Absent
          /\ getPad(i)' = Absent
          /\ last'.op = "play" =>
                \/ /\ pads' = pads
                   /\ playbacks' = playbacks
                   /\ last'.outcome = "warned"
                \/ ~play(i)
          /\ last'.op = "resetPad" =>
                \/ /\ pads' = pads
                   /\ playbacks' = playbacks
                   /\ last'.outcome = "returned"
                \/ ~resetPad(i)
          /\ last'.op = "setTrimPoints" =>
                \/ /\ pads' = pads
                   /\ playbacks' = playbacks
                   /\ last'.outcome = "returned"
                \/ ~(\E s \in TimeArgs, e \in TimeArgs : setTrimPoints(i, s, e))]_vars

C10_Witness ==
    /\ last.op = "resetPad"
    /\ last.pad = -1
    /\ getPad(last.pad) = Absent
    /\ IsLoaded(pads[0])
    /\ pads[0].trimStart = 1
    /\ pads[0].trimEnd = 3
    /\ playbacks # <<>>

\* C11: on a pad with a valid index that is not loaded (never loaded, or
\* emptied by clearAll), play, setTrimPoints and resetPad return normally,
\* change no pad field (trimStart and trimEnd keep their placeholder values
\* 0 and 1) and start no playback.
C11_UnloadedPadNoOp ==
    [][\A i \in {last'.pad} \cap PadIndices :
          ~pads[i].loaded =>
              /\ pads[i].trimStart = 0
              /\ pads[i].trimEnd = 1
              /\ (last'.op = "play" /\ play(i)) =>
                    /\ pads' = pads
                    /\ playbacks' = playbacks
                    /\ last'.outcome = "warned"
              /\ (last'.op = "resetPad" /\ resetPad(i)) =>
                    /\ pads' = pads
                    /\ playbacks' = playbacks
                    /\ last'.outcome = "returned"
              /\ last'.op = "setTrimPoints" =>
                    \A s \in TimeArgs, e \in TimeArgs :
                        setTrimPoints(i, s, e) =>
                            /\ pads' = pads
                            /\ playbacks' = playbacks
                            /\ last'.outcome = "returned"]_vars

\* a pad that was loaded as "kick" and emptied by clearAll
C11_Witness ==
    /\ last.op \in {"play", "setTrimPoints", "resetPad"}
    /\ last.pad = 0
    /\ ~pads[0].loaded
    /\ pads[0].name = "kick"
    /\ pads[0].trimStart = 0
    /\ pads[0].trimEnd = 1

\* C12: resetPad(i) on a loaded pad sets trimStart = 0 and
\* trimEnd = buffer.duration and changes nothing else (buffer, name, loaded,
\* gain, the other pads); a second resetPad(i) immediately after leaves the
\* state as it is.
C12_ResetPadExact ==
    [][\A i \in {last'.pad} \cap PadIndices :
          (last'.op = "resetPad" /\ resetPad(i) /\ IsLoaded(pads[i])) =>
              /\ pads'[i].trimStart = 0
              /\ pads'[i].trimEnd = pads[i].buffer.duration
              /\ pads'[i] = [pads[i] EXCEPT !.trimStart = pads'[i].trimStart,
                                            !.trimEnd = pads'[i].trimEnd]
              /\ \A j \in PadIndices \ {i} : pads'[j] = pads[j]
              /\ tasks' = tasks
              /\ playbacks' = playbacks
              /\ (last.op = "resetPad" /\ last.pad = i) => vars' = vars]_vars

\* a trimmed pad has been reset next to a pad whose trim window is kept
C12_Witness ==
    /\ last.op = "resetPad"
    /\ last.pad = 0
    /\ IsLoaded(pads[0])
    /\ pads[0].name = "kick"
    /\ pads[0].trimStart = 0
    /\ pads[0].trimEnd = pads[0].buffer.duration
    /\ IsLoaded(pads[1])
    /\ pads[1].trimStart = 3
    /\ pads[1].trimEnd = 1

\* C13: after clearAll() every one of the 16 pads equals the empty pad created
\* at construction: buffer absent, loaded = false, trimStart = 0, trimEnd = 1,
\* name = "Pad <index+1>", gain = 1.
C13_ClearAllRestoresEmptyPads ==
    last.op = "clearAll" =>
        \A i \in PadIndices : pads[i] = EmptyPad(i)

\* C14: in every reachable state and for every pad, loaded = true if and only
\* if the pad holds a buffer.
C14_LoadedIffBuffer ==
    \A i \in PadIndices : pads[i].loaded <=> pads[i].buffer # NullBuffer

\* pad 1 was loaded and emptied by clearAll, pad 0 was loaded after that
C14_Witness ==
    /\ pads[0].loaded
    /\ pads[0].buffer = decodeAudioData(2)
    /\ ~pads[1].loaded
    /\ pads[1].buffer = NullBuffer
    /\ pads[1].name = "kick"

(***************************************************************************)
(* Properties of the batch load                                            *)
(***************************************************************************)
\* the buffer the source at position k of the running batch decodes to
OwnBuffer(k) == decodeAudioData(Response(batch.soundURLs[k][1]).data)

\* the load in flight at position k settles in this step
Settles(k) ==
    /\ tasks' = RemoveAt(tasks, k)
    /\ last'.op = tasks[k].op
    /\ last'.pad = tasks[k].pad
    /\ last'.outcome # "pending"

\* C15: when several loads for distinct pads are in flight together and their
\* fetch and decode steps complete in any interleaving, every load whose fetch
\* and decode both succeed ends with its own pad loaded with its own buffer,
\* whichever others fail and in whatever order they complete; a failing load
\* changes no pad.
C15_ConcurrentLoadsIndependent ==
    [][/\ \A k \in DOMAIN batch'.results :
             (batch'.results[k].status = "fulfilled" /\ batch'.results[k].success) =>
                 /\ pads'[k - 1].loaded
                 /\ pads'[k - 1].buffer = OwnBuffer(k)'
       /\ \A k \in DOMAIN tasks :
             (tasks[k].slot >= 0 /\ Settles(k)) =>
                 LET i == tasks[k].pad IN
                 IF Response(tasks[k].url).ok /\ Decodes(Response(tasks[k].url).data)
                 THEN /\ last'.outcome = "resolved"
                      /\ pads'[i].loaded
                      /\ pads'[i].buffer = OwnBuffer(i + 1)
                      /\ \A j \in PadIndices \ {i} : pads'[j] = pads[j]
                 ELSE /\ last'.outcome \in {"FetchError", "DecodeError"}
                      /\ pads' = pads]_vars

\* three loads were in flight together: the first failed, the third resolved
\* before the second, and each pad holds its own source's buffer
C15_Witness ==
    /\ ~batch.loadingBtn
    /\ Len(batch.results) = 3
    /\ ~batch.results[1].success
    /\ batch.results[2].success
    /\ batch.results[3].success
    /\ last.pad = 1
    /\ last.outcome = "resolved"
    /\ ~pads[0].loaded
    /\ pads[1].buffer = decodeAudioData(2)
    /\ pads[2].buffer = decodeAudioData(1)

\* the sources of the batch whose load fails: the fetch or the decode fails
SourceFails(sample) ==
    ~(Response(sample[1]).ok /\ Decodes(Response(sample[1]).data))
FailingSet == {k \in DOMAIN batch.soundURLs : SourceFails(batch.soundURLs[k])}
BatchFinished == batch.promise = "fulfilled" /\ batch.total > 0

\* C16: a batch load of N sources (N <= 16) in which exactly the sources in
\* the set F fail reports N - |F| successes and one failure per index in F,
\* each recorded at its own index, and no exception escapes the batch call.
C16_BatchReportsEachSource ==
    /\ batch.promise \in {"none", "pending", "fulfilled"}
    /\ Len(batch.results) = batch.total
    /\ Len(batch.soundURLs) = batch.total
    /\ batch.total <= maxPads
    /\ \A k \in DOMAIN batch.results :
          /\ batch.results[k].index = k - 1
          /\ batch.results[k].status = "fulfilled" =>
                (batch.results[k].success <=> k \notin FailingSet)
    /\ BatchFinished =>
          /\ \A k \in DOMAIN batch.results : batch.results[k].status = "fulfilled"
          /\ SuccessCount(batch.results) = batch.total - Cardinality(FailingSet)
          /\ batch.loadedCount = batch.total - Cardinality(FailingSet)
          /\ {batch.results[k].index + 1 :
                  k \in {j \in DOMAIN batch.results : ~batch.results[j].success}}
                = FailingSet
          /\ ~batch.loadingBtn
          /\ tasks = <<>>

\* three sources, the one at index 1 undecodable: two successes, one failure
C16_Witness ==
    /\ BatchFinished
    /\ batch.total = 3
    /\ FailingSet = {2}
    /\ batch.soundURLs[2][1] = 5
    /\ batch.loadedCount = 2
    /\ ~batch.results[2].success
    /\ batch.results[2].index = 1
    /\ last.outcome = "DecodeError"

\* C17: the batch load ends in its error outcome if and only if the number of
\* successfully loaded sources is zero; with at least one success it ends in
\* the success outcome reporting successCount out of total.
C17_ErrorIffNoSuccess ==
    batch.promise = "fulfilled" =>
        LET loaded == batch.total - Cardinality(FailingSet) IN
        /\ batch.statusClass \in {"error", "success"}
        /\ batch.statusClass = "error" <=> loaded = 0
        /\ batch.statusClass = "error" =>
              batch.statusText \in {"Failed to load any sounds",
                                    "No sound files found in preset"}
        /\ batch.statusClass = "success" =>
              /\ batch.statusText = "Loaded"
              /\ batch.shown = <<loaded, batch.total>>

\* two sources out of three failed and the batch ended in its success outcome
C17_Witness ==
    /\ batch.promise = "fulfilled"
    /\ batch.total = 3
    /\ Cardinality(FailingSet) = 2
    /\ batch.statusClass = "success"
    /\ batch.shown = <<1, 3>>

(***************************************************************************)
(* Properties of loadSoundFromURL                                          *)
(***************************************************************************)
\* the load in flight at position k takes a step
StepOf(k) == fetchSettles(k) \/ readChunk(k) \/ readDone(k) \/ decodeSettles(k)

NonDecreasingPercent(r) ==
    \A j \in DOMAIN r :
        /\ 0 <= r[j]
        /\ r[j] <= 100
        /\ j > 1 => r[j - 1] <= r[j]

\* C18: during one loadSoundFromURL call with known total size, the values
\* passed to the progress callback are monotonically non-decreasing and all in
\* [0,100], for every sequence of received chunk sizes, also when the bytes
\* received exceed the declared total.
C18_ProgressMonotoneBounded ==
    [][\A k \in DOMAIN tasks :
          (/\ tasks[k].op = "loadSoundFromURL"
           /\ Response(tasks[k].url).contentLength # 0
           /\ StepOf(k)) => NonDecreasingPercent(last'.reported)]_vars

\* C19: when the total size is unknown (no content-length), loadSoundFromURL
\* never invokes the progress callback at any point of the call, including
\* after a successful decode.
C19_NoProgressWithoutTotal ==
    [][\A k \in DOMAIN tasks :
          (/\ tasks[k].op = "loadSoundFromURL"
           /\ Response(tasks[k].url).ok
           /\ Response(tasks[k].url).contentLength = 0
           /\ StepOf(k)) => last'.reported = <<>>]_vars

\* C20: on a non-success transport response the call fails with an error
\* carrying the transport status, no body is read, no decode is attempted, the
\* progress callback is not invoked and no pad is changed.
C20_FetchErrorStopsLoad ==
    [][/\ \A k \in DOMAIN tasks :
             (fetchSettles(k) /\ ~Response(tasks[k].url).ok) =>
                 /\ last'.outcome = "FetchError"
                 /\ last'.status = Response(tasks[k].url).status
                 /\ last'.reported = <<>>
                 /\ tasks[k].nread = 0
                 /\ tasks[k].receivedLength = 0
                 /\ tasks' = RemoveAt(tasks, k)
                 /\ pads' = pads
       /\ \A k \in DOMAIN tasks' :
             (tasks'[k].op = "loadSoundFromURL" /\ tasks'[k].pc \in {"read", "decode"})
                 => Response(tasks'[k].url).ok]_vars

\* a load of a missing resource onto a loaded pad has failed
C20_Witness ==
    /\ last.op = "loadSoundFromURL"
    /\ last.outcome = "FetchError"
    /\ last.status = 404
    /\ last.pad = 0
    /\ tasks = <<>>
    /\ pads[0].loaded
    /\ pads[0].name = "snare"

(***************************************************************************)
(* Properties of the trim bars                                             *)
(***************************************************************************)
\* C21: starting from bars with left.x <= right.x, after any sequence of
\* pointer-move (moveTrimBars), pointer-down (startDrag) and pointer-up
\* (stopDrag) events at arbitrary pointer positions, left.x <= right.x holds
\* after every completed operation, in both implementations.
C21_BarsOrdered ==
    bars.impl \in Implementations => bars.left.x <= bars.right.x

\* the left bar was dragged past the right bar and beyond the canvas
C21_Witness ==
    /\ bars.impl = "ts"
    /\ last.op = "moveTrimBars"
    /\ bars.left.dragged
    /\ ~bars.right.dragged
    /\ bars.left.x = 800
    /\ bars.right.x = 950

\* C22: selection of the two trim bars is mutually exclusive: in no reachable
\* state are both bars selected, and so in no reachable state are both bars
\* dragged, also when the bars are closer together than the proximity
\* threshold and the pointer is within the threshold of both.
C22_SelectionExclusive ==
    /\ ~(bars.left.selected /\ bars.right.selected)
    /\ ~(bars.left.dragged /\ bars.right.dragged)

\* the square of the distance from the pointer to the reference point of a bar
Distance2(bar, mousePos) ==
    (mousePos.x - bar.x) * (mousePos.x - bar.x)
        + (mousePos.y - ReferenceY(bars.impl)) * (mousePos.y - ReferenceY(bars.impl))
Within(bar, mousePos) ==
    Distance2(bar, mousePos) < Radius(bars.impl) * Radius(bars.impl)

\* C23: after a pointer move at a position within the proximity threshold of
\* both bars, the bar that is selected is the one whose reference point is
\* nearer to the pointer, whichever bar was selected before the move; a bar at
\* a distance >= the threshold is never selected.
C23_NearerBarSelected ==
    [][\A mousePos \in MousePositions :
          moveTrimBars(mousePos) =>
              /\ ~Within(bars.left, mousePos) => ~bars'.left.selected
              /\ ~Within(bars.right, mousePos) => ~bars'.right.selected
              /\ (Within(bars.left, mousePos) /\ Within(bars.right, mousePos)) =>
                    /\ Distance2(bars.left, mousePos) < Distance2(bars.right, mousePos)
                          => (bars'.left.selected /\ ~bars'.right.selected)
                    /\ Distance2(bars.right, mousePos) < Distance2(bars.left, mousePos)
                          => (bars'.right.selected /\ ~bars'.left.selected)]_vars

\* C24: after any sequence of pointer events, positions outside the canvas
\* included, both bars satisfy 0 <= x <= canvasWidth.
C24_BarsInsideCanvas ==
    bars.impl \in Implementations =>
        /\ 0 <= bars.left.x /\ bars.left.x <= canvasWidth
        /\ 0 <= bars.right.x /\ bars.right.x <= canvasWidth

(***************************************************************************)
(* Properties of the waveform editor                                       *)
(***************************************************************************)
\* C25: on a pointer-up with a loaded pad selected, the pad's trim window is
\* set from the bars, start from the smaller x and end from the larger x, each
\* times duration / width, so that after every drag release the pad satisfies
\* 0 <= trimStart <= trimEnd <= buffer.duration.
C25_ReleaseKeepsTrimWindow ==
    [][(handleMouseUp /\ bars.impl # "none" /\ IsLoaded(pads[page.listeners])) =>
          LET pad == pads'[page.listeners]
          IN /\ 0 <= pad.trimStart
             /\ pad.trimStart <= pad.trimEnd
             /\ pad.trimEnd <= pad.buffer.duration]_vars

\* a number that is finite and not below zero
NonNegative(v) == v.kind = "finite" /\ v.num >= 0 /\ v.den > 0

\* the step completes an extraction: the envelope changed and no run is left
ExtractionCompletes ==
    /\ wave'.peaks # wave.peaks
    /\ ~wave'.pending /\ ~wave'.hung

\* C26: the peak envelope extracted for a buffer and a display width W has
\* exactly W entries, each a non-negative number, for every buffer length from
\* 1 sample upward (lengths below W and lengths W does not divide included).
C26_EnvelopeNonNegative ==
    [][ExtractionCompletes =>
          /\ wave'.peaks.length = wave'.displayWidth
          /\ \A i \in 0 .. (wave'.peaks.length - 1) :
                NonNegative(PeakAt(wave'.impl, wave'.peaks, i))]_vars

\* the canvas shows the waveform of a whole envelope whose maximum is zero,
\* the envelope of a buffer of all-zero samples
SilentWaveform ==
    /\ wave.canvas.shown = "waveform"
    /\ wave.canvas.peaks.filled = wave.canvas.peaks.length
    /\ max(wave.impl, wave.canvas.peaks) = Num(0, 1)

\* C27: rendering the envelope of a buffer whose samples are all zero divides
\* by no zero (the scale coefficient is a finite number) and every point of
\* the polyline lies on the center line, at half the height.
C27_SilentBufferFlatLine ==
    SilentWaveform =>
        /\ Coef(wave.impl, wave.canvas.peaks, wave.canvas.height).kind = "finite"
        /\ \A i \in 0 .. (wave.canvas.width - 1) :
              PointY(wave.impl, wave.canvas.peaks, wave.canvas.height, i)
                  = Num(wave.canvas.height \div 2, 1)

\* C28: the chunked extraction terminates for every buffer length >= 1 and
\* every width >= 1: no run is caught in a loop that never ends, every run
\* processes the next columns, at most chunkSize of them and in increasing
\* order, and the completion callback fires once, after the last column.
C28_ChunkedExtractionTerminates ==
    [][/\ ~wave'.hung
       /\ processChunk =>
             /\ wave'.peaks.filled > wave.peaks.filled
             /\ wave'.peaks.filled <= wave.peaks.filled + chunkSize
             /\ wave'.callbacks = (IF wave'.peaks.filled = wave'.peaks.length
                                   THEN 1 ELSE 0)]_vars

\* the step draws a waveform on the canvas
DrawsWaveform ==
    /\ last'.op \in {"drawWave", "processChunk", "selectPadTimeout"}
    /\ wave'.canvas.shown = "waveform"

\* C29: the cached envelope is invalidated whenever init presents another
\* buffer or another width: every waveform drawn is the waveform of an
\* envelope of the buffer and the width presented last.
C29_EnvelopeOfPresentedBuffer ==
    [][DrawsWaveform =>
          /\ wave'.canvas.peaks.buffer = wave'.decodedAudioBuffer
          /\ wave'.canvas.peaks.length = wave'.displayWidth]_vars

\* C30: while the extraction of the current buffer has started and has not
\* completed, every drawWave draws the loading placeholder; a waveform is
\* drawn only from a whole envelope, after the extraction has completed.
C30_PlaceholderWhilePending ==
    [][/\ (last'.op = "drawWave" /\ wave.pending) =>
              wave'.canvas.shown = "placeholder"
       /\ DrawsWaveform =>
              /\ ~wave'.pending
              /\ wave'.canvas.peaks.filled = wave'.canvas.peaks.length]_vars

(***************************************************************************)
(* Properties of the drag state machine                                    *)
(***************************************************************************)
\* C31: each bar goes idle -> selected -> dragging -> idle: dragged becomes
\* true only by a startDrag executed while that bar is selected, a startDrag
\* while no bar is selected drags nothing, dragged becomes false only by
\* stopDrag, and after every stopDrag neither bar is dragged.
C31_DragStateMachine ==
    [][/\ (~bars.left.dragged /\ bars'.left.dragged) =>
              (last'.op = "startDrag" /\ bars.left.selected)
       /\ (~bars.right.dragged /\ bars'.right.dragged) =>
              (last'.op = "startDrag" /\ bars.right.selected)
       /\ (last'.op = "startDrag" /\ ~bars.left.selected /\ ~bars.right.selected) =>
              bars' = bars
       /\ (bars.left.dragged /\ ~bars'.left.dragged) => last'.op = "stopDrag"
       /\ (bars.right.dragged /\ ~bars'.right.dragged) => last'.op = "stopDrag"
       /\ last'.op = "stopDrag" =>
              (~bars'.left.dragged /\ ~bars'.right.dragged)]_vars

\* a bar was dragged to the middle of the canvas and released
C31_Witness ==
    /\ last.op = "stopDrag"
    /\ bars.impl = "js"
    /\ bars.left.x = 450
    /\ ~bars.left.dragged /\ ~bars.right.dragged

\* one bar alone is dragged
OneDragged == bars.left.dragged # bars.right.dragged

\* C32: while one bar is dragged and the other is not, the x the stationary
\* bar had when the drag began is still the x of one of the two bars, after
\* every pointer move and for every path of the pointer, the paths that cross
\* the stationary bar included.
C32_StationaryBarKept ==
    (bars.impl \in Implementations /\ OneDragged) =>
        bars.held \in {bars.left.x, bars.right.x}

\* C36: a pointer-up leaves the bar that was being dragged idle, neither
\* dragged nor selected; it is selected again only by a later pointer move
\* that brings the pointer within the proximity threshold.
C36_ReleasedBarIdle ==
    [][last'.op = "stopDrag" =>
          /\ bars.left.dragged =>
                 (~bars'.left.dragged /\ ~bars'.left.selected)
          /\ bars.right.dragged =>
                 (~bars'.right.dragged /\ ~bars'.right.selected)]_vars

(***************************************************************************)
(* Properties of the page's bars and the selected pad's trim window        *)
(***************************************************************************)
\* the pad's stored trim window is ordered and inside its buffer
WindowInsideBuffer(pad) ==
    /\ 0 <= pad.trimStart
    /\ pad.trimStart <= pad.trimEnd
    /\ pad.trimEnd <= pad.buffer.duration

\* C33: after a loaded pad is selected and the bar reposition has run,
\* left.x = trimStart * width / duration and right.x = trimEnd * width /
\* duration, for every stored window with 0 <= trimStart <= trimEnd <=
\* duration, trimEnd = 0 and trimStart = trimEnd included.
C33_BarsShowTrimWindow ==
    [][last'.op = "selectPadTimeout" =>
          LET pad == pads[page.selectedPadIndex]
          IN (IsLoaded(pad) /\ WindowInsideBuffer(pad)) =>
                /\ bars'.left.x * pad.buffer.duration = pad.trimStart * canvasWidth
                /\ bars'.right.x * pad.buffer.duration = pad.trimEnd * canvasWidth]_vars

\* C34: a pointer-up that follows no drag (neither bar is dragged when the
\* button is released) leaves the selected pad's trimStart and trimEnd, and
\* every other pad, unchanged, in every interleaving of pad selections, their
\* delayed bar repositions, resets and pointer events.
C34_ClickKeepsTrimWindow ==
    [][(last'.op = "handleMouseUp" /\ ~bars.left.dragged /\ ~bars.right.dragged) =>
          pads' = pads]_vars

\* the pointer button was released by the last event of the page
ButtonReleased(l) == l.op \in {"handleMouseUp", "mouseUpOutside"}

\* C37: a bar is dragged only while the pointer button is held down: once
\* the button is released, over the overlay canvas or outside it, no bar is
\* dragged, and the pointer move that follows changes no bar's x.
C37_DraggedOnlyWhileButtonDown ==
    [][/\ ButtonReleased(last') =>
              (~bars'.left.dragged /\ ~bars'.right.dragged)
       /\ (ButtonReleased(last) /\ last'.op = "handleMouseMove") =>
              (bars'.left.x = bars.left.x /\ bars'.right.x = bars.right.x)]_vars

(***************************************************************************)
(* Properties of overlapping loads                                         *)
(***************************************************************************)
\* the pad holds the result of the load of audioData under name: its buffer,
\* its name, the loaded flag and the whole buffer as trimEnd
LoadResult(pad, audioData, name) ==
    /\ pad.buffer = decodeAudioData(audioData)
    /\ pad.name = IF name # "" THEN name ELSE DefaultName(pad.index)
    /\ pad.loaded
    /\ pad.trimEnd = pad.buffer.duration

\* C35: when loads targeting the same pad overlap, the pad's buffer, name,
\* loaded flag and trimEnd are always all taken from one and the same load,
\* and each load whose decode completes leaves its own result in the pad, so
\* that after both complete the pad holds the result of the load whose decode
\* completed last.
C35_OverlappingLoadsAtomic ==
    [][/\ \A i \in OverlapPads :
              pads'[i].loaded =>
                  \E a \in LoadArgs : Decodes(a[1]) /\ LoadResult(pads'[i], a[1], a[2])
       /\ (last'.op = "loadSound" /\ last'.outcome = "resolved") =>
              \E k \in DOMAIN tasks :
                  /\ tasks' = RemoveAt(tasks, k)
                  /\ tasks[k].pad = last'.pad
                  /\ LoadResult(pads'[last'.pad], tasks[k].data, tasks[k].name)]_vars

\* two loads of pad 0 overlapped: the load of the second sound has completed
\* while the load of the first is still in flight
C35_Witness ==
    /\ last.op = "loadSound" /\ last.outcome = "resolved" /\ last.pad = 0
    /\ Len(tasks) = 1 /\ tasks[1].pad = 0 /\ tasks[1].data = 1
    /\ pads[0].buffer = decodeAudioData(2)
    /\ pads[0].name = DefaultName(0)

(***************************************************************************)
(* Properties of the "load all" control                                    *)
(***************************************************************************)
\* the loadPresetSounds calls of the main script that are in flight
BatchesInFlight == {r \in DOMAIN batch.outstanding : batch.outstanding[r] > 0}

\* C38: at most one batch preset load is in flight at any time: from the
\* start of a batch load until it finishes no user action, a change of the
\* preset selection included, can start a second one.
C38_SingleBatchInFlight == Cardinality(BatchesInFlight) <= 1

(***************************************************************************)
(* The peak envelope as a function of the buffer                           *)
(***************************************************************************)
\* the samples of block i when the buffer is cut into blocks of
\* ceil(length / width) samples, read with the stride step
BlockOf(buffer, width, step, i) ==
    LET size == (BufferLength(buffer) + width - 1) \div width
    IN {j \in (i * size) .. (i * size + size - 1) :
           /\ (j - i * size) % step = 0
           /\ j < BufferLength(buffer)}

\* C39: for every buffer and width W the buffer is cut into W contiguous
\* blocks of ceil(length / W) samples that cover every sample index, and
\* envelope entry i is the arithmetic mean over all channels of the maximum
\* absolute sample value of block i in that channel, over the positions of
\* the block the stride selects.
C39_EnvelopeIsMeanOfChannelPeaks ==
    [][ExtractionCompletes =>
          LET p == wave'.peaks
              buffer == wave'.decodedAudioBuffer
              W == wave'.displayWidth
              channels == numberOfChannels(buffer)
          IN /\ p.length = W
             /\ \A j \in 0 .. (BufferLength(buffer) - 1) :
                   \E i \in 0 .. (W - 1) : j \in BlockOf(buffer, W, 1, i)
             /\ \A i \in 0 .. (W - 1) :
                   LET peak == PeakAt(wave'.impl, p, i)
                   IN /\ peak.kind = "finite" /\ peak.den > 0
                      /\ peak.num * channels =
                            peak.den * SumPeaks(buffer, channels,
                                                BlockOf(buffer, W, p.step, i))]_vars

====
